---- MODULE Spec2Model ----
(***************************************************************************)
(* TextExtractor.extractFromPdf (src/textExtractor.py): stage a PDF in a   *)
(* temporary file, upload it, poll until the remote side stops reporting   *)
(* PROCESSING, ask the generation endpoint for the text, and clean up the  *)
(* remote handle and the local file in the finally block.                  *)
(*                                                                         *)
(* Vocabulary of the specification against the code:                       *)
(*   ValidationError        = ValueError                  (line 110)       *)
(*   RemoteProcessingError  = Exception(ProcessingFailedMsg)  (line 89)    *)
(*   ExtractionError        = Exception(WrapPrefix + msg)     (line 153)   *)
(*   READY                  = any reported state that is neither           *)
(*                            PROCESSING nor FAILED                        *)
(***************************************************************************)
EXTENDS Integers, Sequences, FiniteSets, TLC

VARIABLES
    pc,            \* per invocation: position in extractFromPdf
    fileSize,      \* per invocation: len(fileContent), line 106
    tmpFile,       \* per invocation: tmpFile.name, the file NamedTemporaryFile created (0: none)
    tempFilePath,  \* per invocation: the local variable tempFilePath (0: None)
    uploadedFile,  \* per invocation: the local variable uploadedFile of extractFromPdf
    polled,        \* per invocation: the parameter uploadedFile of processingResume
    response,      \* per invocation: the generation response, line 129
    raised,        \* per invocation: the exception the try block raised (ve, e of the except clauses)
    pending,       \* per invocation: the return value or exception in flight when finally runs
    result,        \* per invocation: what the caller receives
    calls,         \* per invocation: the remote calls issued, in order
    localFiles,    \* the temporary files that exist on the local filesystem
    remoteFiles,   \* the handles that exist on the remote service
    issuedNames    \* the handle names the remote service has handed out

vars == <<pc, fileSize, tmpFile, tempFilePath, uploadedFile, polled, response,
          raised, pending, result, calls, localFiles, remoteFiles, issuedNames>>

----------------------------------------------------------------------------
(* Bounds *)

\* payload sizes range over 0..MaxSize
MaxSize == 2
\* extracted texts are the strings over Alphabet of length <= MaxTextLen
MaxTextLen == 2
\* the call log records at most MaxPolls status-gets; later ones are issued
\* (the loop is unbounded) but no longer appended
MaxPolls == 2

Invocations == {1, 2}
\* Spec is one call of extractFromPdf
SingleCaller == {1}

Alphabet == {" ", "x"}

RECURSIVE StringsUpTo(_)
StringsUpTo(n) ==
    IF n = 0 THEN {<< >>}
    ELSE LET shorter == StringsUpTo(n - 1)
         IN  shorter \cup {Append(s, c) : s \in {t \in shorter : Len(t) = n - 1}, c \in Alphabet}

Texts == StringsUpTo(MaxTextLen)

----------------------------------------------------------------------------
(* Values *)

\* None for uploadedFile (line 102)
NoFile == [name |-> 0, state |-> "None"]

\* state.name of a handle; "NoState" stands for hasattr(uploadedFile, 'state') being false
FileStates == {"PROCESSING", "READY", "FAILED", "NoState"}

\* the exception classes the remote client's calls raise: a ValueError, or any other Exception
ClientErrorKinds == {"ValueError", "APIError"}

NoExc == [kind |-> "none", msg |-> << >>, cause |-> "none"]

NoOutcome == [tag |-> "none", kind |-> "none", val |-> << >>, cause |-> "none"]

Exc(kind, msg) == [kind |-> kind, msg |-> msg, cause |-> "none"]

Raise(e) == [tag |-> "raise", kind |-> e.kind, val |-> e.msg, cause |-> e.cause]

Return(text) == [tag |-> "return", kind |-> "str", val |-> text, cause |-> "none"]

EmptyFileMsg == <<"Resume file '", "filename", "' is empty (0 bytes)">>

ProcessingFailedMsg == <<"File processing failed">>

WrapPrefix == <<"Failed to extract text from resume: ">>

NoLenMsg == <<"object of type 'NoneType' has no len()">>

ClientErrorMsg(op) == <<op, " failed">>

\* a generation response: its text attribute holds a string, holds None, or is absent
NoResponse == [shape |-> "unset", text |-> << >>]

Responses ==
    {[shape |-> "str", text |-> t] : t \in Texts}
        \cup {[shape |-> "None", text |-> << >>], [shape |-> "absent", text |-> << >>]}

\* str(response) of a response without a text attribute
StrOf(r) == <<"<", "response", ">">>

\* getattr(response, "text", str(response))
GetText(r) == IF r.shape = "absent" THEN [shape |-> "str", text |-> StrOf(r)] ELSE r

IsPrefix(p, s) == Len(p) <= Len(s) /\ SubSeq(s, 1, Len(p)) = p

Min(S) == CHOOSE x \in S : \A y \in S : x <= y

\* one fixed name for every staged file and handle
FreshNameFixed(used) == 1

\* a name no file has had yet: tempfile and the remote service hand out unique names
FreshName(used) == Min((1 .. (Cardinality(used) + 1)) \ used)

CountOp(log, op) == Cardinality({k \in DOMAIN log : log[k].op = op})

\* the call log, with the status-gets beyond MaxPolls left out
Logged(log, op, name) ==
    IF op = "get" /\ CountOp(log, "get") >= MaxPolls
    THEN log
    ELSE Append(log, [op |-> op, name |-> name])

----------------------------------------------------------------------------
(* The except clauses, lines 142-153 *)

\* the except ValueError clause left out: every exception wrapped
ExceptHandlerWrapAll(e) ==
    Raise([kind |-> "Exception", msg |-> WrapPrefix \o e.msg, cause |-> e.kind])

\* the wrapping exception built without the original message
ExceptHandlerDropsMessage(e) ==
    IF e.kind = "ValueError"
    THEN Raise(e)
    ELSE Raise([kind |-> "Exception", msg |-> WrapPrefix, cause |-> e.kind])

\* every exception raised again as it is, none wrapped
ExceptHandlerNoWrap(e) == Raise(e)

ExceptHandler(e) ==
    IF e.kind = "ValueError"
    THEN Raise(e)
    ELSE Raise([kind |-> "Exception", msg |-> WrapPrefix \o e.msg, cause |-> e.kind])

----------------------------------------------------------------------------
(* extractFromPdf, one invocation i *)

Init ==
    /\ pc = [i \in Invocations |-> IF i \in SingleCaller THEN "validate" ELSE "idle"]
    /\ fileSize \in [Invocations -> 0 .. MaxSize]
    /\ \A i \in Invocations \ SingleCaller : fileSize[i] = 0
    /\ tmpFile = [i \in Invocations |-> 0]
    /\ tempFilePath = [i \in Invocations |-> 0]
    /\ uploadedFile = [i \in Invocations |-> NoFile]
    /\ polled = [i \in Invocations |-> NoFile]
    /\ response = [i \in Invocations |-> NoResponse]
    /\ raised = [i \in Invocations |-> NoExc]
    /\ pending = [i \in Invocations |-> NoOutcome]
    /\ result = [i \in Invocations |-> NoOutcome]
    /\ calls = [i \in Invocations |-> << >>]
    /\ localFiles = {}
    /\ remoteFiles = {}
    /\ issuedNames = {}

\* an exception leaves the try block: the matching except clause, then finally
Throw(i, e) ==
    /\ raised' = [raised EXCEPT ![i] = e]
    /\ pending' = [pending EXCEPT ![i] = ExceptHandler(e)]
    /\ pc' = [pc EXCEPT ![i] = "del_remote"]

\* the size check left out
IsEmptyNever(size) == FALSE

\* line 109
IsEmpty(size) == size = 0

\* lines 105-112
Validate(i) ==
    /\ pc[i] = "validate"
    /\ IF IsEmpty(fileSize[i])
       THEN Throw(i, Exc("ValueError", EmptyFileMsg))
       ELSE /\ pc' = [pc EXCEPT ![i] = "stage"]
            /\ UNCHANGED <<raised, pending>>
    /\ UNCHANGED <<fileSize, tmpFile, tempFilePath, uploadedFile, polled, response,
                   result, calls, localFiles, remoteFiles, issuedNames>>

\* lines 115-117: NamedTemporaryFile(delete=False) creates the file, write fills it,
\* and only then is tempFilePath assigned
Stage(i) ==
    /\ pc[i] = "stage"
    /\ \/ /\ Throw(i, Exc("OSError", <<"cannot create temporary file">>))
          /\ UNCHANGED <<tmpFile, tempFilePath, localFiles>>
       \/ LET path == FreshName(localFiles)
          IN  /\ localFiles' = localFiles \cup {path}
              /\ tmpFile' = [tmpFile EXCEPT ![i] = path]
              /\ \/ /\ tempFilePath' = [tempFilePath EXCEPT ![i] = path]
                    /\ pc' = [pc EXCEPT ![i] = "upload"]
                    /\ UNCHANGED <<raised, pending>>
                 \/ /\ Throw(i, Exc("OSError", <<"write failed">>))
                    /\ UNCHANGED tempFilePath
    /\ UNCHANGED <<fileSize, uploadedFile, polled, response, result, calls,
                   remoteFiles, issuedNames>>

\* lines 119-126: files.upload, then the call of processingResume(uploadedFile)
Upload(i) ==
    /\ pc[i] = "upload"
    /\ \/ \E k \in ClientErrorKinds :
             /\ calls' = [calls EXCEPT ![i] = Logged(@, "upload", 0)]
             /\ Throw(i, Exc(k, ClientErrorMsg("upload")))
             /\ UNCHANGED <<uploadedFile, polled, remoteFiles, issuedNames>>
       \/ \E s \in FileStates :
             LET handle == [name |-> FreshName(issuedNames), state |-> s]
             IN  /\ calls' = [calls EXCEPT ![i] = Logged(@, "upload", handle.name)]
                 /\ uploadedFile' = [uploadedFile EXCEPT ![i] = handle]
                 /\ polled' = [polled EXCEPT ![i] = handle]
                 /\ issuedNames' = issuedNames \cup {handle.name}
                 /\ remoteFiles' = remoteFiles \cup {handle.name}
                 /\ pc' = [pc EXCEPT ![i] = "poll"]
                 /\ UNCHANGED <<raised, pending>>
    /\ UNCHANGED <<fileSize, tmpFile, tempFilePath, response, result, localFiles>>

\* the wait for readiness left out
StillProcessingNever(f) == FALSE

\* the loop written as "until READY": FAILED and a missing state keep polling
StillProcessingUntilReady(f) == f.state # "READY"

\* the loop written as "until FAILED": a handle that is ready is polled forever
StillProcessingUntilFailed(f) == f.state # "FAILED"

\* line 81: hasattr(uploadedFile, 'state') and uploadedFile.state.name == "PROCESSING"
StillProcessing(f) == f.state = "PROCESSING"

\* the FAILED state not told from READY
ProcessingFailedNever(f) == FALSE

\* line 86: hasattr(uploadedFile, 'state') and uploadedFile.state.name == "FAILED"
ProcessingFailed(f) == f.state = "FAILED"

\* a retry limit on the loop: no status-get after MaxPolls of them
ProcessingResumePollBounded(i) ==
    /\ pc[i] = "poll"
    /\ StillProcessing(polled[i])
    /\ CountOp(calls[i], "get") < MaxPolls
    /\ calls' = [calls EXCEPT ![i] = Logged(@, "get", polled[i].name)]
    /\ \/ \E k \in ClientErrorKinds :
             /\ Throw(i, Exc(k, ClientErrorMsg("get")))
             /\ UNCHANGED polled
       \/ \E s \in FileStates :
             /\ polled[i].name \in remoteFiles
             /\ polled' = [polled EXCEPT ![i] = [name |-> polled[i].name, state |-> s]]
             /\ UNCHANGED <<pc, raised, pending>>
    /\ UNCHANGED <<fileSize, tmpFile, tempFilePath, uploadedFile, response, result,
                   localFiles, remoteFiles, issuedNames>>

\* lines 81-84: one turn of the while loop of processingResume
ProcessingResumePoll(i) ==
    /\ pc[i] = "poll"
    /\ StillProcessing(polled[i])
    /\ calls' = [calls EXCEPT ![i] = Logged(@, "get", polled[i].name)]
    /\ \/ \E k \in ClientErrorKinds :
             /\ Throw(i, Exc(k, ClientErrorMsg("get")))
             /\ UNCHANGED polled
       \/ \E s \in FileStates :
             /\ polled[i].name \in remoteFiles
             /\ polled' = [polled EXCEPT ![i] = [name |-> polled[i].name, state |-> s]]
             /\ UNCHANGED <<pc, raised, pending>>
    /\ UNCHANGED <<fileSize, tmpFile, tempFilePath, uploadedFile, response, result,
                   localFiles, remoteFiles, issuedNames>>

\* the handle deleted as soon as it is processed, before the generation call
ProcessingResumeExitDeletesFirst(i) ==
    /\ pc[i] = "poll"
    /\ ~StillProcessing(polled[i])
    /\ IF ProcessingFailed(polled[i])
       THEN /\ Throw(i, Exc("Exception", ProcessingFailedMsg))
            /\ UNCHANGED <<calls, remoteFiles>>
       ELSE /\ calls' = [calls EXCEPT ![i] = Logged(@, "delete", polled[i].name)]
            /\ remoteFiles' = remoteFiles \ {polled[i].name}
            /\ pc' = [pc EXCEPT ![i] = "generate"]
            /\ UNCHANGED <<raised, pending>>
    /\ UNCHANGED <<fileSize, tmpFile, tempFilePath, uploadedFile, polled, response,
                   result, localFiles, issuedNames>>

\* lines 81, 86-89: the loop is left, FAILED raises
ProcessingResumeExit(i) ==
    /\ pc[i] = "poll"
    /\ ~StillProcessing(polled[i])
    /\ IF ProcessingFailed(polled[i])
       THEN Throw(i, Exc("Exception", ProcessingFailedMsg))
       ELSE /\ pc' = [pc EXCEPT ![i] = "generate"]
            /\ UNCHANGED <<raised, pending>>
    /\ UNCHANGED <<fileSize, tmpFile, tempFilePath, uploadedFile, polled, response,
                   result, calls, localFiles, remoteFiles, issuedNames>>

\* text = getattr(response, "text", None) or str(response): an empty text falls back too
ExtractTextOrFallback(r) ==
    IF r.shape = "str" /\ r.text # << >>
    THEN [ok |-> TRUE, text |-> r.text, exc |-> NoExc]
    ELSE [ok |-> TRUE, text |-> StrOf(r), exc |-> NoExc]

\* lines 138-140: text = getattr(response, "text", str(response)); len(text); return text
\* (len(None) raises TypeError)
ExtractText(r) ==
    LET text == GetText(r)
    IN  IF text.shape = "None"
        THEN [ok |-> FALSE, text |-> << >>, exc |-> Exc("TypeError", NoLenMsg)]
        ELSE [ok |-> TRUE, text |-> text.text, exc |-> NoExc]

\* lines 129-140
Generate(i) ==
    /\ pc[i] = "generate"
    /\ calls' = [calls EXCEPT ![i] = Logged(@, "generate", uploadedFile[i].name)]
    /\ \/ \E k \in ClientErrorKinds :
             /\ Throw(i, Exc(k, ClientErrorMsg("generate")))
             /\ UNCHANGED response
       \/ \E r \in Responses :
             /\ uploadedFile[i].name \in remoteFiles
             /\ response' = [response EXCEPT ![i] = r]
             /\ IF ~ExtractText(r).ok
                THEN Throw(i, ExtractText(r).exc)
                ELSE /\ pending' = [pending EXCEPT ![i] = Return(ExtractText(r).text)]
                     /\ pc' = [pc EXCEPT ![i] = "del_remote"]
                     /\ UNCHANGED raised
    /\ UNCHANGED <<fileSize, tmpFile, tempFilePath, uploadedFile, polled, result,
                   localFiles, remoteFiles, issuedNames>>

\* the None test of line 93 left out
HasHandleAlways(f) == TRUE

\* the remote delete issued only for a handle that finished processing
HasHandleOnlyReady(f) == f # NoFile /\ f.state = "READY"

\* line 93: if uploadedFile and hasattr(uploadedFile, 'name')
HasHandle(f) == f # NoFile

\* the exception of files.delete raised again after the warning
DeleteFailedRaises(out) == Raise(Exc("APIError", ClientErrorMsg("delete")))

\* lines 97-98: the exception of files.delete is logged as a warning, nothing is raised
DeleteFailed(out) == out

\* line 156, lines 91-98
DelProcessedResume(i) ==
    /\ pc[i] = "del_remote"
    /\ IF HasHandle(uploadedFile[i])
       THEN /\ calls' = [calls EXCEPT ![i] = Logged(@, "delete", uploadedFile[i].name)]
            /\ \/ /\ remoteFiles' = remoteFiles \ {uploadedFile[i].name}
                  /\ UNCHANGED <<raised, pending>>
               \/ /\ pending' = [pending EXCEPT ![i] = DeleteFailed(@)]
                  /\ UNCHANGED remoteFiles
       ELSE UNCHANGED <<calls, remoteFiles, pending>>
    /\ pc' = [pc EXCEPT ![i] = "del_local"]
    /\ UNCHANGED <<fileSize, tmpFile, tempFilePath, uploadedFile, polled, response,
                   raised, result, localFiles, issuedNames>>

\* the exception of os.unlink only logged, like the one of files.delete
UnlinkFailedSwallowed(out) == out

\* lines 161-163: the exception of os.unlink is logged and raised again; raised in
\* finally, it replaces the return value or exception in flight
UnlinkFailed(out) == Raise(Exc("OSError", <<"unlink failed">>))

\* lines 157-163, and the end of the call
UnlinkTemp(i) ==
    /\ pc[i] = "del_local"
    /\ IF tempFilePath[i] # 0 /\ tempFilePath[i] \in localFiles
       THEN \/ /\ localFiles' = localFiles \ {tempFilePath[i]}
               /\ result' = [result EXCEPT ![i] = pending[i]]
            \/ /\ result' = [result EXCEPT ![i] = UnlinkFailed(pending[i])]
               /\ UNCHANGED localFiles
       ELSE /\ result' = [result EXCEPT ![i] = pending[i]]
            /\ UNCHANGED localFiles
    /\ pc' = [pc EXCEPT ![i] = "done"]
    /\ UNCHANGED <<fileSize, tmpFile, tempFilePath, uploadedFile, polled, response,
                   raised, pending, calls, remoteFiles, issuedNames>>

Next ==
    \E i \in SingleCaller :
        \/ Validate(i)
        \/ Stage(i)
        \/ Upload(i)
        \/ ProcessingResumePoll(i)
        \/ ProcessingResumeExit(i)
        \/ Generate(i)
        \/ DelProcessedResume(i)
        \/ UnlinkTemp(i)

Spec == Init /\ [][Next]_vars

----------------------------------------------------------------------------
(* Outcomes, in the words of the specification *)

Done(i) == pc[i] = "done"

Started(i) == pc[i] # "idle"

\* line 110
IsValidationError(out) == out.tag = "raise" /\ out.kind = "ValueError"

\* line 89
IsRemoteProcessingError(out) ==
    out.tag = "raise" /\ out.kind = "Exception" /\ out.val = ProcessingFailedMsg

\* line 153
IsExtractionError(out) ==
    out.tag = "raise" /\ out.kind = "Exception" /\ IsPrefix(WrapPrefix, out.val)

\* line 163
IsLocalDeleteError(out) == out.tag = "raise" /\ out.kind = "OSError"

IsText(out) == out.tag = "return"

OpsOf(i, op) == {k \in DOMAIN calls[i] : calls[i][k].op = op}

----------------------------------------------------------------------------
(* C1: for a payload of size 0, extractFromPdf fails with ValidationError and
   issues no remote call at all: no upload, status-get, generation or delete. *)
C1_EmptyPayloadNoRemoteCalls ==
    \A i \in Invocations :
        (Started(i) /\ fileSize[i] = 0) =>
            /\ calls[i] = << >>
            /\ uploadedFile[i] = NoFile
            /\ Done(i) => IsValidationError(result[i])

C1_Witness ==
    \E i \in Invocations :
        Done(i) /\ fileSize[i] = 0 /\ IsValidationError(result[i]) /\ calls[i] = << >>

(* C2: after any invocation, the file staged by NamedTemporaryFile no longer
   exists on the local filesystem. *)
C2_StagedFileGone ==
    \A i \in Invocations : Done(i) => tmpFile[i] \notin localFiles

(* C3: once the upload has returned a handle, the invocation ends with exactly
   one remote delete, issued for that handle's name; a delete is never issued
   twice or for another name. *)
C3_RemoteDeleteExactlyOnce ==
    \A i \in Invocations :
        /\ Cardinality(OpsOf(i, "delete")) <= 1
        /\ \A k \in OpsOf(i, "delete") :
              HasHandle(uploadedFile[i]) /\ calls[i][k].name = uploadedFile[i].name
        /\ (Done(i) /\ uploadedFile[i] # NoFile) => Cardinality(OpsOf(i, "delete")) = 1

\* an invocation ended by an exception of status-get, with its one delete
C3_Witness ==
    \E i \in Invocations :
        /\ Done(i)
        /\ uploadedFile[i] # NoFile
        /\ raised[i].msg = ClientErrorMsg("get")
        /\ Cardinality(OpsOf(i, "delete")) = 1

\* the order of the remote calls of one invocation: upload, status-gets, generation, delete
Rank(op) ==
    CASE op = "upload" -> 1
      [] op = "get" -> 2
      [] op = "generate" -> 3
      [] op = "delete" -> 4

InOrder(log) ==
    \A k, l \in DOMAIN log :
        k < l => /\ Rank(log[k].op) <= Rank(log[l].op)
                 /\ log[k].op \in {"upload", "generate"} => log[k].op # log[l].op

(* C4 as stated: every invocation on a non-empty payload issues exactly one
   upload and exactly one generation call, with the status-gets in between. *)
C4_ExactlyOneUploadAndGeneration ==
    \A i \in Invocations :
        (Done(i) /\ fileSize[i] > 0) =>
            /\ Cardinality(OpsOf(i, "upload")) = 1
            /\ Cardinality(OpsOf(i, "generate")) = 1
            /\ InOrder(calls[i])

(* C4 as amended: an invocation on a non-empty payload issues at most one upload,
   then status-gets, then at most one generation call, in that order; status-gets
   and generation are issued only against the handle the upload returned, the
   generation only once the handle was last seen neither PROCESSING nor FAILED;
   exactly one upload is issued once staging succeeded, and an invocation that
   returns text issued exactly one upload and exactly one generation call. *)
C4_AtMostOneUploadAndGenerationInOrder ==
    \A i \in Invocations :
        /\ InOrder(calls[i])
        /\ calls[i] # << >> => fileSize[i] > 0 /\ calls[i][1].op = "upload"
        /\ \A k \in OpsOf(i, "get") \cup OpsOf(i, "generate") :
              uploadedFile[i] # NoFile /\ calls[i][k].name = uploadedFile[i].name
        /\ OpsOf(i, "generate") # {} => polled[i].state \notin {"PROCESSING", "FAILED"}
        /\ (Done(i) /\ tempFilePath[i] # 0) => Cardinality(OpsOf(i, "upload")) = 1
        /\ (Done(i) /\ IsText(result[i])) =>
              /\ Cardinality(OpsOf(i, "upload")) = 1
              /\ Cardinality(OpsOf(i, "generate")) = 1

\* a run with upload, status-gets and generation that returned text
C4_Witness ==
    \E i \in Invocations :
        /\ Done(i)
        /\ IsText(result[i])
        /\ Cardinality(OpsOf(i, "get")) = MaxPolls
        /\ Cardinality(OpsOf(i, "generate")) = 1

(* C5 as stated: when the remote state becomes FAILED, the caller receives
   RemoteProcessingError and the generation endpoint is never called. *)
C5_FailedGivesRemoteProcessingError ==
    \A i \in Invocations :
        (Done(i) /\ polled[i].state = "FAILED") =>
            /\ IsRemoteProcessingError(result[i])
            /\ OpsOf(i, "generate") = {}

(* C5 as amended: when the remote state becomes FAILED, the generation endpoint
   is never called and processingResume raises RemoteProcessingError, which the
   caller receives wrapped in ExtractionError (carrying its message), or, when
   deleting the staged file fails, replaced by that deletion error. *)
C5_FailedGivesWrappedError ==
    \A i \in Invocations :
        polled[i].state = "FAILED" =>
            /\ OpsOf(i, "generate") = {}
            /\ pc[i] \in {"del_remote", "del_local", "done"} =>
                  /\ raised[i] = Exc("Exception", ProcessingFailedMsg)
                  /\ pending[i] = Raise([kind |-> "Exception",
                                         msg |-> WrapPrefix \o ProcessingFailedMsg,
                                         cause |-> "Exception"])
            /\ Done(i) => \/ result[i] = pending[i]
                          \/ /\ IsLocalDeleteError(result[i])
                             /\ tempFilePath[i] \in localFiles

\* FAILED reported by a status-get, the wrapped error received
C5_Witness ==
    \E i \in Invocations :
        /\ Done(i)
        /\ polled[i].state = "FAILED"
        /\ OpsOf(i, "get") # {}
        /\ IsExtractionError(result[i])

(* C6 as stated: every terminating invocation returns text, raises
   ValidationError or raises ExtractionError, whatever failed. *)
C6_ThreeOutcomes ==
    \A i \in Invocations :
        Done(i) => \/ IsText(result[i])
                   \/ IsValidationError(result[i])
                   \/ IsExtractionError(result[i])

(* C6 as amended: every terminating invocation returns text, raises
   ValidationError, raises ExtractionError, or, when deleting the staged file
   failed (the file then still exists), raises that deletion error. *)
C6_FourOutcomes ==
    \A i \in Invocations :
        Done(i) => \/ IsText(result[i])
                   \/ IsValidationError(result[i])
                   \/ IsExtractionError(result[i])
                   \/ /\ IsLocalDeleteError(result[i])
                      /\ tempFilePath[i] # 0
                      /\ tempFilePath[i] \in localFiles

\* a failed generation, wrapped, with the remote delete failing as well
C6_Witness ==
    \E i \in Invocations :
        /\ Done(i)
        /\ raised[i] = Exc("APIError", ClientErrorMsg("generate"))
        /\ uploadedFile[i].name \in remoteFiles
        /\ IsExtractionError(result[i])

(* C7: a failing remote delete never changes the outcome: the finally block's
   remote delete step, succeeding or raising, leaves the return value or exception
   in flight as it was and goes on to the local delete, so the caller receives the
   outcome of the main path unless the local delete itself fails. *)
C7_RemoteDeleteFailureSwallowed ==
    /\ [][\A i \in Invocations :
              (pc[i] = "del_remote" /\ pc'[i] # "del_remote") =>
                  /\ pending'[i] = pending[i]
                  /\ pc'[i] = "del_local"]_vars
    /\ [](\A i \in Invocations :
              Done(i) =>
                  /\ result[i] = pending[i] \/ IsLocalDeleteError(result[i])
                  /\ tempFilePath[i] # 0 =>
                        tempFilePath[i] \notin localFiles \/ IsLocalDeleteError(result[i]))

\* the remote delete was attempted and failed (the handle is still there), the
\* staged file was deleted all the same and the text was returned
C7_Witness ==
    \E i \in Invocations :
        /\ Done(i)
        /\ OpsOf(i, "delete") # {}
        /\ uploadedFile[i].name \in remoteFiles
        /\ tempFilePath[i] # 0
        /\ tempFilePath[i] \notin localFiles
        /\ IsText(result[i])

\* line 110, as raised
EmptyFileError == Raise(Exc("ValueError", EmptyFileMsg))

(* C8: the ValidationError of an empty payload reaches the caller as it was
   raised: not wrapped in ExtractionError, and not replaced by an error of the
   remote or local delete. *)
C8_ValidationErrorUnchanged ==
    \A i \in Invocations :
        fileSize[i] = 0 =>
            /\ pc[i] \in {"del_remote", "del_local", "done"} => pending[i] = EmptyFileError
            /\ Done(i) => result[i] = EmptyFileError

C8_Witness ==
    \E i \in Invocations :
        /\ Done(i)
        /\ fileSize[i] = 0
        /\ raised[i].kind = "ValueError"
        /\ result[i].val = EmptyFileMsg
        /\ result[i].cause = "none"

\* the exceptions of upload, polling and generation (lines 120, 84, 89, 129, 139)
FromRemoteStep(e) ==
    e.msg \in {ClientErrorMsg(op) : op \in {"upload", "get", "generate"}}
                  \cup {ProcessingFailedMsg, NoLenMsg}

\* line 153
Wrapped(e) == Raise([kind |-> "Exception", msg |-> WrapPrefix \o e.msg, cause |-> e.kind])

(* C9 as stated: an exception of upload, polling or generation that is not a
   ValidationError reaches the caller wrapped in ExtractionError with the original
   message, and a ValidationError at the caller means the payload was empty. *)
C9_WrappedAndValidationMeansEmpty ==
    \A i \in Invocations :
        Done(i) =>
            /\ (FromRemoteStep(raised[i]) /\ raised[i].kind # "ValueError") =>
                  result[i] = Wrapped(raised[i])
            /\ IsValidationError(result[i]) => fileSize[i] = 0

(* C9 as amended: an exception of upload, polling or generation that is not a
   ValueError reaches the caller wrapped in ExtractionError with the original
   message, unless deleting the staged file fails, whose error is raised instead;
   a ValueError raised by one of these steps reaches the caller unchanged, so a
   ValidationError at the caller means that the payload was empty or that a remote
   step raised a ValueError. *)
C9_WrappedUnlessValueError ==
    \A i \in Invocations :
        Done(i) =>
            /\ (FromRemoteStep(raised[i]) /\ raised[i].kind # "ValueError") =>
                  \/ result[i] = Wrapped(raised[i])
                  \/ IsLocalDeleteError(result[i]) /\ tempFilePath[i] \in localFiles
            /\ (FromRemoteStep(raised[i]) /\ raised[i].kind = "ValueError") =>
                  \/ result[i] = Raise(raised[i])
                  \/ IsLocalDeleteError(result[i]) /\ tempFilePath[i] \in localFiles
            /\ IsValidationError(result[i]) =>
                  \/ fileSize[i] = 0
                  \/ FromRemoteStep(raised[i]) /\ raised[i].kind = "ValueError"

\* an upload that raised, received wrapped with its message
C9_Witness ==
    \E i \in Invocations :
        /\ Done(i)
        /\ raised[i] = Exc("APIError", ClientErrorMsg("upload"))
        /\ result[i].kind = "Exception"
        /\ result[i].val = WrapPrefix \o ClientErrorMsg("upload")

(* C10: when the generation response has a text attribute holding a string t,
   the value extractFromPdf returns is t, character for character, the empty
   string included; it returns unless deleting the staged file fails. *)
C10_TextPassthrough ==
    \A i \in Invocations :
        (Done(i) /\ response[i].shape = "str") =>
            /\ IsText(result[i]) => result[i].val = response[i].text
            /\ ~IsText(result[i]) =>
                  IsLocalDeleteError(result[i]) /\ tempFilePath[i] \in localFiles

\* the empty string returned as the empty string
C10_Witness ==
    \E i \in Invocations :
        /\ Done(i)
        /\ response[i] = [shape |-> "str", text |-> << >>]
        /\ result[i] = Return(<< >>)

(* C11: when the generation response lacks a usable text (the attribute is
   absent, or present and None), extractFromPdf returns str(response) rather
   than failing (the error of a failing local delete apart). *)
C11_FallbackToStringRendering ==
    \A i \in Invocations :
        (Done(i) /\ response[i].shape \in {"absent", "None"}
                 /\ ~IsLocalDeleteError(result[i])) =>
            result[i] = Return(StrOf(response[i]))

(* C12: a status-get is issued only while the state last observed for the
   handle is PROCESSING: when the upload reports another state no status-get is
   issued at all, and once a state other than PROCESSING has been observed no
   further status-get is issued (none is logged, none answers, none raises). *)
C12_GetOnlyWhileProcessing ==
    /\ [](\A i \in Invocations :
              (uploadedFile[i] # NoFile /\ uploadedFile[i].state # "PROCESSING") =>
                  /\ OpsOf(i, "get") = {}
                  /\ polled[i] = uploadedFile[i])
    /\ [][\A i \in Invocations :
              (uploadedFile[i] # NoFile /\ polled[i].state # "PROCESSING") =>
                  /\ OpsOf(i, "get")' = OpsOf(i, "get")
                  /\ polled'[i] = polled[i]
                  /\ raised'[i] # raised[i] => raised'[i].msg # ClientErrorMsg("get")]_vars

\* PROCESSING at upload, READY at the first status-get, and no second status-get
C12_Witness ==
    \E i \in Invocations :
        /\ Done(i)
        /\ uploadedFile[i].state = "PROCESSING"
        /\ polled[i].state = "READY"
        /\ Cardinality(OpsOf(i, "get")) = 1

\* the invocation is past processingResume
PastPolling(i) == pc[i] \in {"generate", "del_remote", "del_local", "done"}

(* C13 as stated: once the handle has been observed PROCESSING, the readiness
   wait is left only after a status-get reported another state. *)
C13_LeftOnlyByStateTransition ==
    \A i \in Invocations :
        (uploadedFile[i] # NoFile /\ PastPolling(i)) => polled[i].state # "PROCESSING"

(* C13 as amended: once the handle has been observed PROCESSING, the readiness
   wait is left only after a status-get reported another state or a status-get
   raised; no count of status-gets ends it: as long as PROCESSING is the state
   last observed, the next status-get is issued, however many were issued before. *)
C13_LeftByTransitionOrGetError ==
    \A i \in Invocations :
        /\ (uploadedFile[i] # NoFile /\ PastPolling(i) /\ polled[i].state = "PROCESSING") =>
              /\ raised[i].msg = ClientErrorMsg("get")
              /\ OpsOf(i, "get") # {}
              /\ OpsOf(i, "generate") = {}
        /\ (pc[i] = "poll" /\ polled[i].state = "PROCESSING") =>
              ENABLED ProcessingResumePoll(i)

\* still polling after the log has filled up with status-gets
C13_Witness ==
    \E i \in Invocations :
        /\ pc[i] = "poll"
        /\ polled[i].state = "PROCESSING"
        /\ Cardinality(OpsOf(i, "get")) = MaxPolls

----------------------------------------------------------------------------
(* One call whose steps all get taken: every call of the client returns or
   raises and the local steps run. Nothing makes the remote side stop answering
   PROCESSING, so the status-get of the loop has no fairness. *)
FairSpec ==
    /\ Init
    /\ [][Next]_vars
    /\ \A i \in SingleCaller :
          /\ WF_vars(Validate(i))
          /\ WF_vars(Stage(i))
          /\ WF_vars(Upload(i))
          /\ WF_vars(ProcessingResumeExit(i))
          /\ WF_vars(Generate(i))
          /\ WF_vars(DelProcessedResume(i))
          /\ WF_vars(UnlinkTemp(i))

\* the invocation waits in the loop of processingResume, PROCESSING the state last observed
WaitingOnProcessing(i) == pc[i] = "poll" /\ polled[i].state = "PROCESSING"

\* both steps of the finally block were taken: the remote delete was attempted if
\* there is a handle, the local delete if there is a staged file path
CleanedUp(i) ==
    /\ uploadedFile[i] # NoFile => OpsOf(i, "delete") # {}
    /\ tempFilePath[i] # 0 =>
          tempFilePath[i] \notin localFiles \/ IsLocalDeleteError(result[i])

(* C14: an invocation whose remote side does not report PROCESSING for ever (and
   whose calls all return or raise) eventually terminates, with both cleanup
   steps performed; an invocation whose remote side reports PROCESSING for ever
   never terminates and never reaches the cleanup. *)
C14_TerminatesUnlessProcessingForever ==
    \A i \in SingleCaller :
        /\ ([]<>~WaitingOnProcessing(i)) => <>Done(i)
        /\ [](Done(i) => CleanedUp(i))
        /\ (<>[]WaitingOnProcessing(i)) =>
              [](~Done(i) /\ pc[i] \notin {"del_remote", "del_local"}
                          /\ OpsOf(i, "delete") = {})

\* terminated after polling, with the handle deleted remotely and the file locally
C14_Witness ==
    \E i \in SingleCaller :
        /\ Done(i)
        /\ Cardinality(OpsOf(i, "get")) = MaxPolls
        /\ OpsOf(i, "delete") # {}
        /\ uploadedFile[i].name \notin remoteFiles
        /\ tempFilePath[i] # 0
        /\ tempFilePath[i] \notin localFiles

----------------------------------------------------------------------------
\* line 163, as raised
LocalDeleteError == Raise(Exc("OSError", <<"unlink failed">>))

\* os.unlink was called and raised: the path is set and the file is still there at the end
LocalDeleteFailed(i) == Done(i) /\ tempFilePath[i] # 0 /\ tempFilePath[i] \in localFiles

(* C15: in the finally block the remote delete is attempted before the local
   delete, and a failing local delete is raised to the caller: the invocation
   then ends with the deletion error, whether the main path had produced text,
   a ValidationError or an ExtractionError. *)
C15_LocalDeleteFailureRaised ==
    \A i \in Invocations :
        /\ LocalDeleteFailed(i) => result[i] = LocalDeleteError
        /\ (Done(i) /\ ~LocalDeleteFailed(i)) => result[i] = pending[i]
        /\ (pc[i] \in {"del_local", "done"} /\ uploadedFile[i] # NoFile) =>
              OpsOf(i, "delete") # {}
        /\ (tempFilePath[i] # 0 /\ pc[i] # "done") => tempFilePath[i] \in localFiles

\* the text was ready to be returned and the deletion error is what the caller gets
C15_Witness ==
    \E i \in Invocations :
        /\ LocalDeleteFailed(i)
        /\ IsText(pending[i])
        /\ OpsOf(i, "delete") # {}
        /\ result[i] = LocalDeleteError

----------------------------------------------------------------------------
(* Two concurrent calls of extractFromPdf on different (non-empty) documents,
   sharing the client and the filesystem, their steps interleaved in any order *)

InitConcurrent ==
    /\ pc = [i \in Invocations |-> "validate"]
    /\ fileSize \in [Invocations -> {MaxSize}]
    /\ tmpFile = [i \in Invocations |-> 0]
    /\ tempFilePath = [i \in Invocations |-> 0]
    /\ uploadedFile = [i \in Invocations |-> NoFile]
    /\ polled = [i \in Invocations |-> NoFile]
    /\ response = [i \in Invocations |-> NoResponse]
    /\ raised = [i \in Invocations |-> NoExc]
    /\ pending = [i \in Invocations |-> NoOutcome]
    /\ result = [i \in Invocations |-> NoOutcome]
    /\ calls = [i \in Invocations |-> << >>]
    /\ localFiles = {}
    /\ remoteFiles = {}
    /\ issuedNames = {}

\* what the two calls share is names, not texts or exception classes: the responses
\* are one per shape (the empty text), the client's errors of one class
ConcurrentInputs(i) ==
    /\ response'[i].text = << >>
    /\ raised'[i].kind # "ValueError"

NextConcurrent ==
    \E i \in Invocations :
        \/ Validate(i) /\ ConcurrentInputs(i)
        \/ Stage(i) /\ ConcurrentInputs(i)
        \/ Upload(i) /\ ConcurrentInputs(i)
        \/ ProcessingResumePoll(i) /\ ConcurrentInputs(i)
        \/ ProcessingResumeExit(i) /\ ConcurrentInputs(i)
        \/ Generate(i) /\ ConcurrentInputs(i)
        \/ DelProcessedResume(i) /\ ConcurrentInputs(i)
        \/ UnlinkTemp(i) /\ ConcurrentInputs(i)

SpecConcurrent == InitConcurrent /\ [][NextConcurrent]_vars

\* the invocation holds a remote handle it has not yet asked to delete
HoldsHandle(i) == uploadedFile[i] # NoFile /\ pc[i] \in {"poll", "generate", "del_remote"}

\* the invocation holds a staged file it has not yet tried to delete
HoldsStagedFile(i) == tempFilePath[i] # 0 /\ pc[i] # "done"

(* C16: in every interleaving of two invocations, each issues its status-gets,
   generation and remote delete only against the handle its own upload returned
   and deletes only the file it staged itself: the handles and the staged files
   two invocations hold are different, and what an invocation holds is never
   deleted by the other one. *)
C16_InvocationsIndependent ==
    \A i \in Invocations :
        /\ \A k \in DOMAIN calls[i] :
              calls[i][k].op # "upload" =>
                  uploadedFile[i] # NoFile /\ calls[i][k].name = uploadedFile[i].name
        /\ tempFilePath[i] # 0 => tempFilePath[i] = tmpFile[i]
        /\ HoldsHandle(i) => uploadedFile[i].name \in remoteFiles
        /\ HoldsStagedFile(i) => tempFilePath[i] \in localFiles
        /\ \A j \in Invocations \ {i} :
              /\ (uploadedFile[i] # NoFile /\ uploadedFile[j] # NoFile) =>
                    uploadedFile[i].name # uploadedFile[j].name
              /\ (HoldsStagedFile(i) /\ HoldsStagedFile(j)) =>
                    tempFilePath[i] # tempFilePath[j]

\* one invocation has deleted its handle and its file, the other still holds its own
C16_Witness ==
    \E i, j \in Invocations :
        /\ i # j
        /\ Done(i)
        /\ uploadedFile[i] # NoFile
        /\ uploadedFile[i].name \notin remoteFiles
        /\ tempFilePath[i] \notin localFiles
        /\ pc[j] = "generate"
        /\ HoldsStagedFile(j)

----------------------------------------------------------------------------
\* files.upload raised: the call was issued and returned no handle
UploadRaised(i) == OpsOf(i, "upload") # {} /\ uploadedFile[i] = NoFile

(* C17 as stated: when the upload itself raises, no status-get, generation or
   remote delete is issued, the staged file is deleted, and the caller receives
   the wrapped extraction failure. *)
C17_UploadFailureWrapped ==
    \A i \in Invocations :
        (Done(i) /\ UploadRaised(i)) =>
            /\ calls[i] = <<[op |-> "upload", name |-> 0]>>
            /\ tmpFile[i] \notin localFiles
            /\ result[i] = Wrapped(raised[i])

(* C17 as amended: when the upload itself raises, no status-get, generation or
   remote delete is issued and the delete of the staged file is attempted; the
   caller receives the wrapped extraction failure, unless the upload raised a
   ValueError, which is raised again unchanged, or the delete of the staged file
   fails, whose error is raised instead (the file then stays). *)
C17_UploadFailureCleansUpLocally ==
    \A i \in Invocations :
        UploadRaised(i) =>
            /\ calls[i] = <<[op |-> "upload", name |-> 0]>>
            /\ raised[i].msg = ClientErrorMsg("upload")
            /\ pending[i] =
                  IF raised[i].kind = "ValueError" THEN Raise(raised[i]) ELSE Wrapped(raised[i])
            /\ Done(i) =>
                  \/ tmpFile[i] \notin localFiles /\ result[i] = pending[i]
                  \/ tmpFile[i] \in localFiles /\ result[i] = LocalDeleteError

\* the upload raised, the staged file is gone and the wrapped error is received
C17_Witness ==
    \E i \in Invocations :
        /\ Done(i)
        /\ UploadRaised(i)
        /\ tmpFile[i] # 0
        /\ tmpFile[i] \notin localFiles
        /\ IsExtractionError(result[i])

(* C18: the remote delete is the last remote operation of an invocation: it is
   the last call in the log, and once it has been attempted the invocation
   issues no upload, status-get or generation call any more (no call is logged,
   no handle, state or response is received, no call raises). *)
C18_RemoteDeleteIsLast ==
    /\ [](\A i \in Invocations : \A k \in OpsOf(i, "delete") : k = Len(calls[i]))
    /\ [][\A i \in Invocations :
              OpsOf(i, "delete") # {} =>
                  /\ calls'[i] = calls[i]
                  /\ uploadedFile'[i] = uploadedFile[i]
                  /\ polled'[i] = polled[i]
                  /\ response'[i] = response[i]
                  /\ raised'[i] = raised[i]]_vars

\* a full run: upload, status-get, generation, and the delete at the end of the log
C18_Witness ==
    \E i \in Invocations :
        /\ Done(i)
        /\ OpsOf(i, "get") # {}
        /\ OpsOf(i, "generate") # {}
        /\ calls[i][Len(calls[i])] = [op |-> "delete", name |-> uploadedFile[i].name]

====
